---- MODULE Spec2Model ----
(***************************************************************************)
(* Target calculators of ml_investment/targets.py.                         *)
(*                                                                         *)
(* A calculate call groups the request table by ticker, maps the           *)
(* per-ticker resolver over the groups in a process pool, gathers the      *)
(* per-ticker tables in work-item order, concatenates, drops duplicate     *)
(* (ticker, date) keys and left-joins onto the request table.  The         *)
(* compositions run several such passes one after the other and combine    *)
(* the 'y' columns.                                                        *)
(*                                                                         *)
(* Dates are integers.  A cell of a 'y' column is a record                 *)
(* [k, n, d]: a finite rational n/d, a NaN, a None (both null to pandas,   *)
(* but only the NaN is a float to numpy) or a signed infinity.             *)
(***************************************************************************)
EXTENDS Integers, Sequences, FiniteSets, TLC

VARIABLES
    order,      \* order in which the provider returns records: "asc" / "desc"
    qdata,      \* ticker -> quarterly records as load_quarterly_data returns them
    ddata,      \* ticker -> [present, rows]: load_daily_data's table, or None
    bdata,      \* load_base_data's table: rows [ticker, val]
    target,     \* the calculator object: its class and constructor arguments
    info_df,    \* the caller's request table: rows [ticker, date]
    n_jobs,     \* the n_jobs argument of the call, Omitted when the caller gives none
    concat_rule, \* how pd.concat of the installed pandas types a column that has
                \* an all-null part of dtype object
    pc,         \* position of the calling process
    passNo,     \* which primitive calculate call of the composition is running
    params,     \* work items (ticker, dates) of the running pass
    pool,       \* process count of the Pool the running pass opened
    wres,       \* per work item: how far its worker is, and its outcome
    result,     \* the list `result` of per-ticker tables gathered so far
    tables,     \* tables returned by the completed passes
    out,        \* what the outermost calculate returned
    err,        \* the exception that left calculate
    foo_calls   \* every invocation of the aggregation function

vars == <<order, qdata, ddata, bdata, target, info_df, n_jobs, concat_rule, pc, passNo,
          params, pool, wres, result, tables, out, err, foo_calls>>

\* what a calculate call is given
inputs == <<order, qdata, ddata, bdata, target, info_df, n_jobs, concat_rule>>

----------------------------------------------------------------------------
(* Bounds of the explored inputs *)

MaxDate == 3

MaxRows == 2

Tickers == {"A", "B"}

Dates == 1..MaxDate

Orders == {"asc", "desc"}

----------------------------------------------------------------------------
(* Cells of a 'y' column *)

\* np.nan
Null == [k |-> "null", n |-> 0, d |-> 1]

\* None in a column of dtype object
NoneCell == [k |-> "none", n |-> 0, d |-> 1]

PosInf == [k |-> "inf", n |-> 1, d |-> 0]

NegInf == [k |-> "inf", n |-> -1, d |-> 0]

Abs(x) == IF x < 0 THEN -x ELSE x

RECURSIVE Gcd(_, _)
Gcd(a, b) == IF b = 0 THEN a ELSE Gcd(b, a % b)

\* the float n/d, d > 0, in lowest terms
Rat(n, d) ==
    LET g == Gcd(Abs(n), d)
    IN  [k |-> "num", n |-> n \div g, d |-> d \div g]

Num(n) == [k |-> "num", n |-> n, d |-> 1]

IsNull(y) == y.k \in {"null", "none"}

IsNone(y) == y.k = "none"

\* the null date: the np.nan of line 52 in a column of dates
NaT == 0

----------------------------------------------------------------------------
(* Exceptions: the type, and which fields of the request the message names *)

NoError == [type |-> "none", names |-> {}]

\* `assert cond` without a message raises AssertionError()
AssertionError == [type |-> "AssertionError", names |-> {}]

\* np.datetime64(nan): "Could not convert object to NumPy datetime";
\* pd.concat([]): "No objects to concatenate"
ValueError == [type |-> "ValueError", names |-> {}]

\* None in numpy arithmetic: "unsupported operand type(s)"
TypeError == [type |-> "TypeError", names |-> {}]

IsFinite(y) == y.k = "num"

----------------------------------------------------------------------------
(* Sequence helpers: Python slicing and indexing *)

Min(a, b) == IF a < b THEN a ELSE b

Max(a, b) == IF a > b THEN a ELSE b

\* s[::-1]
Reverse(s) == [i \in 1..Len(s) |-> s[Len(s) + 1 - i]]

\* s[:h] for h >= 0
SliceTo(s, h) == SubSeq(s, 1, Min(h, Len(s)))

\* the first |h| elements instead of the last
SliceFromHead(s, h) == SubSeq(s, 1, Min(-h, Len(s)))

\* s[h:] for h < 0
SliceFrom(s, h) == SubSeq(s, Max(1, Len(s) + h + 1), Len(s))

\* s[idx] with Python's rule for a negative idx
PyIndex(s, idx) == IF idx >= 0 THEN s[idx + 1] ELSE s[Len(s) + idx + 1]

RECURSIVE SumSeq(_)
SumSeq(s) == IF s = <<>> THEN 0 ELSE Head(s) + SumSeq(Tail(s))

RECURSIVE Flatten(_)
Flatten(ss) == IF ss = <<>> THEN <<>> ELSE Head(ss) \o Flatten(Tail(ss))

Column(s, col) == [i \in 1..Len(s) |-> s[i][col]]

----------------------------------------------------------------------------
(* QuarterlyTarget._single_ticker_target *)

\* np.where(quarter_dates == date)[0][0], as a 0-based index
FirstMatch(quarter_dates, date) ==
    (CHOOSE i \in 1..Len(quarter_dates) :
        /\ quarter_dates[i] = date
        /\ \A j \in 1..(i - 1) : quarter_dates[j] # date) - 1

\* the lookup without the test idx >= 0: a negative idx indexes from the end
QuarterValueNoLowerBound(quarterly_data, col, quarter_shift, date) ==
    LET idx == FirstMatch(Column(quarterly_data, "date"), date) + quarter_shift
    IN  IF idx < Len(quarterly_data) /\ -idx <= Len(quarterly_data)
        THEN Num(PyIndex(Column(quarterly_data, col), idx))
        ELSE Null

\* the loop body for one requested date; quarterly_data is already reversed
QuarterValue(quarterly_data, col, quarter_shift, date) ==
    LET curr_quarter_idx == FirstMatch(Column(quarterly_data, "date"), date)
        idx == curr_quarter_idx + quarter_shift
    IN  IF idx >= 0 /\ idx < Len(quarterly_data)
        THEN Num(PyIndex(Column(quarterly_data, col), idx))
        ELSE Null

\* the table used in the order the provider returned it
QuarterlyNoReverse(provided) == provided

\* load_quarterly_data([ticker])[::-1]
QuarterlyLoaded(provided) == Reverse(provided)

\* the assert of the loop: every requested date is a quarter date.  Where the
\* assert is compiled away, [0][0] of the empty np.where raises in its place.
AllMatched(quarterly_data, dates) ==
    \A i \in 1..Len(dates) :
        \E j \in 1..Len(quarterly_data) : quarterly_data[j].date = dates[i]

\* a resolver that answers an unmatched date with a null
QuarterlySingleNullOnMiss(provided, col, quarter_shift, ticker, dates) ==
    LET quarterly_data == QuarterlyLoaded(provided)
        matched(d) == \E j \in 1..Len(quarterly_data) : quarterly_data[j].date = d
    IN  [st |-> "ok",
         rows |-> [i \in 1..Len(dates) |->
                     [ticker |-> ticker, date |-> dates[i],
                      y |-> IF matched(dates[i])
                            THEN QuarterValue(quarterly_data, col, quarter_shift, dates[i])
                            ELSE Null]],
         calls |-> {}, err |-> NoError]

\* the exception of the first date the loop cannot resolve: np.datetime64 of a
\* null date raises before the membership test is made
QuarterlyError(quarterly_data, dates) ==
    LET bad == {i \in 1..Len(dates) : ~AllMatched(quarterly_data, <<dates[i]>>)}
        first == CHOOSE i \in bad : \A j \in bad : i <= j
    IN  IF dates[first] = NaT THEN ValueError ELSE AssertionError

QuarterlySingle(provided, col, quarter_shift, ticker, dates) ==
    LET quarterly_data == QuarterlyLoaded(provided)
    IN  IF ~AllMatched(quarterly_data, dates)
        THEN [st |-> "fail", rows |-> <<>>, calls |-> {},
              err |-> QuarterlyError(quarterly_data, dates)]
        ELSE [st |-> "ok",
              rows |-> [i \in 1..Len(dates) |->
                          [ticker |-> ticker, date |-> dates[i],
                           y |-> QuarterValue(quarterly_data, col, quarter_shift, dates[i])]],
              calls |-> {}, err |-> NoError]

----------------------------------------------------------------------------
(* DailyAggTarget._single_ticker_target *)

\* np.mean of a float array; of the empty array it is nan (a warning, no error)
Mean(series) ==
    IF series = <<>> THEN Null ELSE Rat(SumSeq(series), Len(series))

\* the aggregation functions a caller hands to the constructor as foo: np.mean
\* (the default), np.max and np.sum
Foos == {"mean", "max", "sum"}

\* the largest element of a non-empty array
RECURSIVE MaxSeq(_)
MaxSeq(s) == IF Len(s) = 1 THEN Head(s) ELSE Max(Head(s), MaxSeq(Tail(s)))

\* self.foo raises: np.max of the empty array is a ValueError ("zero-size array
\* to reduction operation maximum which has no identity")
FooRaises(foo, series) == foo = "max" /\ series = <<>>

\* an aggregation that is the mean whatever function the caller gave
FooAlwaysMean(foo, series) == Mean(series)

\* self.foo(series.astype(float)) where it returns; np.sum of the empty array
\* is 0.0
Foo(foo, series) ==
    CASE foo = "mean" -> Mean(series)
      [] foo = "max" -> Num(MaxSeq(series))
      [] foo = "sum" -> Num(SumSeq(series))

\* daily_data[::-1]
DailyLoaded(provided) == Reverse(provided)

\* a forward window that starts the day after the requested date
DailyWindowSameDayExcluded(daily_data, col, horizon, date) ==
    IF horizon >= 0
    THEN SliceTo(Column(SelectSeq(daily_data, LAMBDA r : r.date > date), col), horizon)
    ELSE SliceFrom(Column(SelectSeq(daily_data, LAMBDA r : r.date < date), col), horizon)

\* a backward window that takes in the requested day
DailyWindowPastIncludesDay(daily_data, col, horizon, date) ==
    IF horizon >= 0
    THEN SliceTo(Column(SelectSeq(daily_data, LAMBDA r : r.date >= date), col), horizon)
    ELSE SliceFrom(Column(SelectSeq(daily_data, LAMBDA r : r.date <= date), col), horizon)

\* the loop body up to the call of foo: the array handed to it
DailyWindow(daily_data, col, horizon, date) ==
    IF horizon >= 0
    THEN SliceTo(Column(SelectSeq(daily_data, LAMBDA r : r.date >= date), col), horizon)
    ELSE SliceFrom(Column(SelectSeq(daily_data, LAMBDA r : r.date < date), col), horizon)

\* a resolver that treats a missing table as an empty one
DailySingleAbsentAsEmpty(daily, col, horizon, foo, ticker, dates) ==
    LET daily_data == DailyLoaded(daily.rows)
        win(d) == DailyWindow(daily_data, col, horizon, d)
    IN  [st |-> "ok",
         rows |-> [i \in 1..Len(dates) |->
                     [ticker |-> ticker, date |-> dates[i], y |-> Mean(win(dates[i]))]],
         calls |-> {[ticker |-> ticker, date |-> dates[i], horizon |-> horizon,
                     series |-> win(dates[i])] : i \in 1..Len(dates)},
         err |-> NoError]

\* the first date of the loop at which an exception is raised, Len(dates) + 1
\* when the loop runs to its end: np.datetime64(date) raises on a null date
\* (lines 247, 250), self.foo may raise on its window (line 254)
FirstRaise(daily_data, col, horizon, foo, dates) ==
    LET raises(i) == \/ dates[i] = NaT
                     \/ FooRaises(foo, DailyWindow(daily_data, col, horizon, dates[i]))
    IN  IF \E i \in 1..Len(dates) : raises(i)
        THEN CHOOSE i \in 1..Len(dates) : raises(i) /\ \A j \in 1..(i - 1) : ~raises(j)
        ELSE Len(dates) + 1

DailySingle(daily, col, horizon, foo, ticker, dates) ==
    IF ~daily.present
    THEN [st |-> "ok",
          rows |-> [i \in 1..Len(dates) |->
                      [ticker |-> ticker, date |-> dates[i], y |-> NoneCell]],
          calls |-> {}, err |-> NoError]
    ELSE LET daily_data == DailyLoaded(daily.rows)
             win(d) == DailyWindow(daily_data, col, horizon, d)
             stop == FirstRaise(daily_data, col, horizon, foo, dates)
             \* foo is called for the dates before the raise, and for the date of
             \* the raise when it is foo that raises
             called == {i \in 1..Len(dates) : i < stop \/ (i = stop /\ dates[i] # NaT)}
             calls == {[ticker |-> ticker, date |-> dates[i], horizon |-> horizon,
                        series |-> win(dates[i])] : i \in called}
         IN  IF stop <= Len(dates)
             THEN [st |-> "fail", rows |-> <<>>, calls |-> calls, err |-> ValueError]
             ELSE [st |-> "ok",
                   rows |-> [i \in 1..Len(dates) |->
                               [ticker |-> ticker, date |-> dates[i],
                                y |-> Foo(foo, win(dates[i]))]],
                   calls |-> calls, err |-> NoError]

----------------------------------------------------------------------------
(* The table operations of calculate *)

\* group keys come out of groupby sorted
TickerSeq == <<"A", "B">>

\* info_df.groupby('ticker')['date'].apply(tolist): one work item per ticker, in
\* sorted ticker order, its dates in request row order
GroupBy(df) ==
    LET present == SelectSeq(TickerSeq, LAMBDA t : \E i \in 1..Len(df) : df[i].ticker = t)
    IN  [g \in 1..Len(present) |->
            [ticker |-> present[g],
             dates |-> Column(SelectSeq(df, LAMBDA r : r.ticker = present[g]), "date")]]

\* the two ways pandas releases find the dtype of a concatenated column: an
\* all-null part is left out of it when another part is not all-null (pandas
\* before 1.4.0 and from 1.4.3), or every part counts (1.4.0 to 1.4.2)
ConcatRules == {"ignores_all_null", "counts_all"}

\* every 'y' of the per-ticker table is None or NaN
AllNull(part) == \A i \in 1..Len(part) : IsNull(part[i].y)

\* pd.concat(result, axis=0): the rows of the parts in order.  The column 'y'
\* gets one dtype: float64, with the None cells of the all-None parts turned
\* into NaN, when the rule leaves those parts out and a float part has a value;
\* object, with the cells as they are, otherwise.
Concat(parts) ==
    LET rows == Flatten(parts)
        float == /\ concat_rule = "ignores_all_null"
                 /\ \E p \in 1..Len(parts) : ~AllNull(parts[p])
    IN  IF float
        THEN [i \in 1..Len(rows) |->
                IF IsNone(rows[i].y) THEN [rows[i] EXCEPT !.y = Null] ELSE rows[i]]
        ELSE rows

SameKey(a, b) == a.ticker = b.ticker /\ a.date = b.date

\* a drop_duplicates that keeps every row
KeepDuplicates(rows) == rows

\* result.drop_duplicates(['ticker', 'date']): the first row of every key stays
DropDuplicates(rows) ==
    LET keep == {i \in 1..Len(rows) : \A j \in 1..(i - 1) : ~SameKey(rows[j], rows[i])}
        nth(n) == CHOOSE i \in keep : Cardinality({j \in keep : j < i}) = n - 1
    IN  [n \in 1..Cardinality(keep) |-> rows[nth(n)]]

\* the rows a left row contributes to a left join
JoinRow(l, right) ==
    LET hits == SelectSeq(right, LAMBDA r : SameKey(l, r))
    IN  IF hits = <<>>
        THEN <<[ticker |-> l.ticker, date |-> l.date, y |-> Null]>>
        ELSE hits

\* a join that keeps the order of the right table
MergeRightOrder(left, right) ==
    SelectSeq(right, LAMBDA r : \E i \in 1..Len(left) : SameKey(left[i], r))

\* pd.merge(info_df, result, on=['ticker', 'date'], how='left'): left row order
MergeLeft(left, right) ==
    Flatten([i \in 1..Len(left) |-> JoinRow(left[i], right)])

----------------------------------------------------------------------------
(* The calculators and their passes *)

\* number of primitive calculate calls one calculate of the target makes
PassCount(t) ==
    CASE t.cls = "QuarterlyTarget" -> 1
      [] t.cls = "DailyAggTarget" -> 1
      [] t.cls = "QuarterlyDiffTarget" -> 2
      [] t.cls = "QuarterlyBinDiffTarget" -> 2
      [] t.cls = "ReportGapTarget" -> 2
      [] t.cls = "DailySmoothedQuarterlyDiffTarget" -> 3
      [] t.cls = "RebasedQuarterly" -> 2

\* the primitive calculator the n-th call runs on
PassTarget(t, n) ==
    CASE t.cls = "QuarterlyTarget" -> t
      [] t.cls = "DailyAggTarget" -> t
      [] t.cls \in {"QuarterlyDiffTarget", "QuarterlyBinDiffTarget"} ->
            [cls |-> "QuarterlyTarget", col |-> t.col,
             quarter_shift |-> IF n = 1 THEN 0 ELSE -1,
             horizon |-> 0, norm |-> FALSE]
      [] t.cls = "ReportGapTarget" ->
            [cls |-> "DailyAggTarget", col |-> t.col, quarter_shift |-> 0,
             horizon |-> IF n = 1 THEN t.horizon ELSE -t.horizon, norm |-> FALSE,
             foo |-> "mean"]
      [] t.cls = "DailySmoothedQuarterlyDiffTarget" ->
            IF n = 1
            THEN [cls |-> "QuarterlyTarget", col |-> "date", quarter_shift |-> -1,
                  horizon |-> 0, norm |-> FALSE]
            ELSE [cls |-> "DailyAggTarget", col |-> t.col, quarter_shift |-> 0,
                  horizon |-> t.horizon, norm |-> FALSE, foo |-> "mean"]
      [] t.cls = "RebasedQuarterly" ->
            [cls |-> "QuarterlyTarget", col |-> IF n = 1 THEN "date" ELSE t.col,
             quarter_shift |-> IF n = 1 THEN -1 ELSE 0,
             horizon |-> 0, norm |-> FALSE]

\* a rebase that leaves the requested dates as they are
RebaseKeepsDates(last_date_df) ==
    [i \in 1..Len(last_date_df) |->
        [ticker |-> last_date_df[i].ticker, date |-> last_date_df[i].date]]

\* lines 352-354: the table of the quarterly pass with its 'y' moved into 'date'
Rebase(last_date_df) ==
    [i \in 1..Len(last_date_df) |->
        [ticker |-> last_date_df[i].ticker,
         date |-> IF IsNull(last_date_df[i].y) THEN NaT ELSE last_date_df[i].y.n]]

\* every call is given the caller's request table
PassRequestNotRebased(t, n, df, tabs) == df

\* the request table the n-th call is given: the caller's, or the rebased one
PassRequest(t, n, df, tabs) ==
    IF \/ t.cls = "DailySmoothedQuarterlyDiffTarget" /\ n = 3
       \/ t.cls = "RebasedQuarterly" /\ n = 2
    THEN Rebase(tabs[1])
    ELSE df

\* the n_jobs parameter of calculate: cpu_count() unless the caller gives one
CpuCount == 4

Omitted == 0

Supplied(n) == IF n = Omitted THEN CpuCount ELSE n

\* the argument of Pool() in a primitive call made by calculate of t: the
\* compositions hand their n_jobs on, the smoothed difference does not
PoolSize(t, n) ==
    IF t.cls = "DailySmoothedQuarterlyDiffTarget" THEN CpuCount ELSE Supplied(n)

\* self._single_ticker_target applied to one work item
SingleTickerTarget(t, item) ==
    IF t.cls = "QuarterlyTarget"
    THEN QuarterlySingle(qdata[item.ticker], t.col, t.quarter_shift,
                         item.ticker, item.dates)
    ELSE DailySingle(ddata[item.ticker], t.col, t.horizon, t.foo, item.ticker,
                     item.dates)

----------------------------------------------------------------------------
(* Arithmetic on 'y' cells, as numpy does it on float columns *)

\* a - b
Sub(a, b) ==
    IF IsNull(a) \/ IsNull(b) THEN Null
    ELSE Rat(a.n * b.d - b.n * a.d, a.d * b.d)

\* np.abs
AbsCell(a) == IF IsNull(a) THEN Null ELSE [a EXCEPT !.n = Abs(a.n)]

\* a / b: x/0 is a signed infinity, 0/0 is nan
Div(a, b) ==
    IF IsNull(a) \/ IsNull(b) THEN Null
    ELSE IF b.n = 0
         THEN (IF a.n > 0 THEN PosInf ELSE IF a.n < 0 THEN NegInf ELSE Null)
         ELSE IF b.n > 0 THEN Rat(a.n * b.d, a.d * b.n)
              ELSE Rat(-(a.n * b.d), a.d * (-b.n))

\* QuarterlyDiffTarget.calculate on the two tables of its passes
DiffNoAbs(curr_df, last_df, norm) ==
    [i \in 1..Len(curr_df) |->
        LET diff == Sub(curr_df[i].y, last_df[i].y)
        IN  [curr_df[i] EXCEPT !.y = IF norm THEN Div(diff, last_df[i].y) ELSE diff]]

DiffCalculate(curr_df, last_df, norm) ==
    [i \in 1..Len(curr_df) |->
        LET diff == Sub(curr_df[i].y, last_df[i].y)
        IN  [curr_df[i] EXCEPT
                !.y = IF norm THEN Div(diff, AbsCell(last_df[i].y)) ELSE diff]]

\* a binarisation that casts the comparison of every row, nulls included
BinNullAsFalse(target_df) ==
    [i \in 1..Len(target_df) |->
        [target_df[i] EXCEPT
            !.y = IF ~IsNull(@) /\ @.n > 0 THEN Num(1) ELSE Num(0)]]

\* QuarterlyBinDiffTarget.calculate on the table of its QuarterlyDiffTarget
BinCalculate(target_df) ==
    [i \in 1..Len(target_df) |->
        [target_df[i] EXCEPT
            !.y = IF IsNull(@) THEN Null
                  ELSE IF @.n > 0 THEN Num(1) ELSE Num(0)]]

\* DailySmoothedQuarterlyDiffTarget.calculate, lines 359-362: the quotient is
\* taken by last_df['y'] itself
SmoothedCalculate(curr_df, last_df, norm) ==
    [i \in 1..Len(curr_df) |->
        LET diff == Sub(curr_df[i].y, last_df[i].y)
        IN  [curr_df[i] EXCEPT !.y = IF norm THEN Div(diff, last_df[i].y) ELSE diff]]

HasNone(df) == \E i \in 1..Len(df) : IsNone(df[i].y)

\* the exception of the combination.  Series arithmetic masks the None cells of
\* an object column; np.abs of such a column and arithmetic on its .values
\* apply the operator to None itself.
CombineError(t, tabs) ==
    CASE t.cls = "ReportGapTarget" /\ t.norm /\ HasNone(tabs[2]) -> TypeError
      [] /\ t.cls = "DailySmoothedQuarterlyDiffTarget"
         /\ (HasNone(tabs[2]) \/ HasNone(tabs[3])) -> TypeError
      [] OTHER -> NoError

\* what the outermost calculate returns once its passes have returned
Combine(t, tabs) ==
    CASE t.cls \in {"QuarterlyTarget", "DailyAggTarget"} -> tabs[1]
      [] t.cls = "QuarterlyDiffTarget" -> DiffCalculate(tabs[1], tabs[2], t.norm)
      [] t.cls = "QuarterlyBinDiffTarget" ->
            BinCalculate(DiffCalculate(tabs[1], tabs[2], FALSE))
      [] t.cls = "ReportGapTarget" -> DiffCalculate(tabs[1], tabs[2], t.norm)
      [] t.cls = "DailySmoothedQuarterlyDiffTarget" ->
            SmoothedCalculate(tabs[2], tabs[3], t.norm)
      [] t.cls = "RebasedQuarterly" -> tabs[2]

----------------------------------------------------------------------------
(* Steps of a calculate call *)

\* a work item no worker has begun: no date handled yet
Pending == [st |-> "pending", rows |-> <<>>, calls |-> {}, err |-> NoError, done |-> 0]

\* the worker of a work item has not left _single_ticker_target yet
Unfinished(w) == w.st \in {"pending", "running"}

\* _single_ticker_target goes through the dates of the item one by one, unless
\* it returns before its loop (line 242)
WorkerLoops(t, item) == t.cls = "QuarterlyTarget" \/ ddata[item.ticker].present

\* the work item cut down to its first k dates
Upto(item, k) == [item EXCEPT !.dates = SubSeq(@, 1, k)]

\* the worker of an item after k of its dates, r being what the resolver makes
\* of those dates: it has raised, has returned its table, or is in its loop
WorkerAt(r, last, k) ==
    [st |-> IF r.st = "fail" THEN "fail" ELSE IF last THEN "ok" ELSE "running",
     rows |-> IF last THEN r.rows ELSE <<>>,
     calls |-> r.calls,
     err |-> r.err,
     done |-> k]

\* the pool has a process free for work item g: the items go to the processes
\* in work-item order, one item per process at a time
ProcessFree(g) ==
    Cardinality({h \in 1..(g - 1) : Unfinished(wres[h])}) < pool

NoTable == [ok |-> FALSE, rows |-> <<>>]

\* lines 87-93: group the request, open the pool, hand the items to imap
Group ==
    /\ pc = "call"
    /\ LET request == PassRequest(target, passNo, info_df, tables)
       IN  /\ params' = GroupBy(request)
           /\ wres' = [g \in 1..Len(GroupBy(request)) |-> Pending]
    /\ pool' = PoolSize(target, n_jobs)
    /\ result' = <<>>
    /\ pc' = "run"
    /\ UNCHANGED <<inputs, passNo, tables, out, err, foo_calls>>

\* a pool worker takes _single_ticker_target on work item g one date further:
\* one pass of the loop of lines 44-55 / 246-254, and with the last date the
\* return of the table.  The pool is never closed (lines 92-95, 289-292), so its
\* workers go on with the items handed out after an exception has left calculate.
Work(g) ==
    /\ pc \in {"run", "failed"}
    /\ Unfinished(wres[g])
    /\ ProcessFree(g)
    /\ LET t == PassTarget(target, passNo)
           k == wres[g].done + 1
           last == ~WorkerLoops(t, params[g]) \/ k = Len(params[g].dates)
           r == SingleTickerTarget(t, IF last THEN params[g] ELSE Upto(params[g], k))
       IN  /\ wres' = [wres EXCEPT ![g] = WorkerAt(r, last, k)]
           /\ foo_calls' = foo_calls \cup wres'[g].calls
    /\ UNCHANGED <<inputs, pc, passNo, params, pool, result, tables, out, err>>

\* lines 94-95: the parent takes the next outcome of imap, in work-item order;
\* a worker's exception is raised again here and leaves calculate
Collect ==
    /\ pc = "run"
    /\ Len(result) < Len(params)
    /\ ~Unfinished(wres[Len(result) + 1])
    /\ IF wres[Len(result) + 1].st = "ok"
       THEN /\ result' = Append(result, wres[Len(result) + 1].rows)
            /\ UNCHANGED <<pc, out, err>>
       ELSE /\ pc' = "failed"
            /\ out' = NoTable
            /\ err' = wres[Len(result) + 1].err
            /\ UNCHANGED result
    /\ UNCHANGED <<inputs, passNo, params, pool, wres, tables, foo_calls>>

\* a merge of what has been gathered so far, without waiting for the rest
MergeWithoutWaiting ==
    /\ pc = "run"
    /\ Len(result) >= 1
    /\ tables' = Append(tables,
            MergeLeft(PassRequest(target, passNo, info_df, tables),
                      DropDuplicates(Concat(result))))
    /\ pc' = "ret"
    /\ UNCHANGED <<inputs, passNo, params, pool, wres, result, out, err, foo_calls>>

\* lines 97-103: concat, drop_duplicates, merge; pd.concat of an empty list raises
Merge ==
    /\ pc = "run"
    /\ Len(result) = Len(params)
    /\ IF result = <<>>
       THEN /\ pc' = "failed"
            /\ out' = NoTable
            /\ err' = ValueError
            /\ UNCHANGED tables
       ELSE /\ tables' = Append(tables,
                   MergeLeft(PassRequest(target, passNo, info_df, tables),
                             DropDuplicates(Concat(result))))
            /\ pc' = "ret"
            /\ UNCHANGED <<out, err>>
    /\ UNCHANGED <<inputs, passNo, params, pool, wres, result, foo_calls>>

\* the caller of the primitive resumes: the next pass, or the combination
Return ==
    /\ pc = "ret"
    /\ IF passNo < PassCount(target)
       THEN /\ passNo' = passNo + 1
            /\ pc' = "call"
            /\ UNCHANGED <<out, err>>
       ELSE IF CombineError(target, tables) # NoError
            THEN /\ pc' = "failed"
                 /\ out' = NoTable
                 /\ err' = CombineError(target, tables)
                 /\ UNCHANGED passNo
            ELSE /\ out' = [ok |-> TRUE, rows |-> Combine(target, tables)]
                 /\ pc' = "done"
                 /\ UNCHANGED <<passNo, err>>
    /\ UNCHANGED <<inputs, params, pool, wres, result, tables, foo_calls>>

Next ==
    \/ Group
    \/ \E g \in 1..Len(params) : Work(g)
    \/ Collect
    \/ Merge
    \/ Return

----------------------------------------------------------------------------
(* The explored inputs *)

\* the dates of D in ascending order
SortedDates(D) ==
    [i \in 1..Cardinality(D) |->
        CHOOSE d \in D : Cardinality({e \in D : e < d}) = i - 1]

\* the records of a history on the dates D with the values v, oldest first
History(D, v) ==
    [i \in 1..Cardinality(D) |-> [date |-> SortedDates(D)[i], val |-> v[SortedDates(D)[i]]]]

\* the table as the provider hands it out
Provided(ord, history) == IF ord = "asc" THEN history ELSE Reverse(history)

\* values that tell the records of one ticker, and the two tickers, apart
BaseVal(t) == [d \in Dates |-> 10 * d + (IF t = "A" THEN 0 ELSE 5)]

\* histories without gaps, starting on the first date
Prefixes == {1..k : k \in 0..MaxDate}

Absent == [present |-> FALSE, rows |-> <<>>]

Table(rows) == [present |-> TRUE, rows |-> rows]

\* request tables of up to MaxRows rows over the tickers T
Requests(T) ==
    UNION {[1..n -> [ticker : T, date : Dates]] : n \in 0..MaxRows}

QuarterlyTargets(Shifts) ==
    {[cls |-> "QuarterlyTarget", col |-> "val", quarter_shift |-> q,
      horizon |-> 0, norm |-> FALSE] : q \in Shifts}

\* DailyAggTarget(col, horizon, foo); foo = np.mean is the constructor's default,
\* the function of the calculators the specifications other than SpecAgg explore
DailyTargets(Horizons, F) ==
    {[cls |-> "DailyAggTarget", col |-> "val", quarter_shift |-> 0,
      horizon |-> h, norm |-> FALSE, foo |-> f] : h \in Horizons, f \in F}

\* the state when calculate is entered
Start ==
    /\ pc = "call"
    /\ passNo = 1
    /\ params = <<>>
    /\ pool = 0
    /\ wres = <<>>
    /\ result = <<>>
    /\ tables = <<>>
    /\ out = NoTable
    /\ err = NoError
    /\ foo_calls = {}

NoQuarterly == [t \in Tickers |-> <<>>]

NoDaily == [t \in Tickers |-> Absent]

NoBase == <<>>

\* the request names a ticker without daily table and one with: only then can a
\* concatenation have an all-None part next to another part
MixesParts ==
    \E i, j \in 1..Len(info_df) :
        ~ddata[info_df[i].ticker].present /\ ddata[info_df[j].ticker].present

\* the installed pandas follows either rule; where the two rules give the same
\* tables one of them stands for both
ConcatRuleOfPandas ==
    IF MixesParts THEN concat_rule \in ConcatRules ELSE concat_rule = "counts_all"

Engine ==
    \/ /\ target \in QuarterlyTargets({-1, 0, 1})
       /\ \E D \in [Tickers -> Prefixes] :
             qdata = [t \in Tickers |-> Provided(order, History(D[t], BaseVal(t)))]
       /\ ddata = NoDaily
    \/ /\ target \in DailyTargets({-1, 0, 1}, {"mean"})
       /\ qdata = NoQuarterly
       /\ \E D \in [Tickers -> Prefixes \cup {{-1}}] :
             ddata = [t \in Tickers |->
                        IF D[t] = {-1} THEN Absent
                        ELSE Table(Provided(order, History(D[t], BaseVal(t))))]

\* both primitives on two tickers with gap-free histories of any length, the
\* daily table of a ticker possibly absent
InitEngine ==
    /\ order \in Orders
    /\ Engine
    /\ bdata = NoBase
    /\ info_df \in Requests(Tickers)
    /\ n_jobs = Omitted
    /\ ConcatRuleOfPandas
    /\ Start

WideRange == (-(MaxDate + 1))..(MaxDate + 1)

Resolver ==
    \/ /\ target \in QuarterlyTargets(WideRange)
       /\ \E D \in SUBSET Dates :
             qdata = [t \in Tickers |->
                        IF t = "A" THEN Provided(order, History(D, BaseVal(t))) ELSE <<>>]
       /\ ddata = NoDaily
    \/ /\ target \in DailyTargets(WideRange, {"mean"})
       /\ qdata = NoQuarterly
       /\ \E D \in SUBSET Dates :
             ddata = [t \in Tickers |->
                        IF t = "A" THEN Table(Provided(order, History(D, BaseVal(t))))
                        ELSE Absent]

\* both primitives on one ticker whose history may have gaps, with offsets and
\* horizons that reach beyond the history
InitResolver ==
    /\ order \in Orders
    /\ Resolver
    /\ bdata = NoBase
    /\ info_df \in Requests({"A"})
    /\ n_jobs = Omitted
    /\ ConcatRuleOfPandas
    /\ Start

Init == InitEngine \/ InitResolver

\* quarterly values with a zero, a negative one and an increase of a fifth
QVals == {-100, 0, 100, 120}

DiffTargets ==
    {[cls |-> "QuarterlyDiffTarget", col |-> "val", quarter_shift |-> 0,
      horizon |-> 0, norm |-> b] : b \in BOOLEAN}
    \cup {[cls |-> "QuarterlyBinDiffTarget", col |-> "val", quarter_shift |-> 0,
           horizon |-> 0, norm |-> FALSE]}

\* the quarterly differences on one ticker with a gap-free history of any values
InitDiff ==
    /\ order \in Orders
    /\ target \in DiffTargets
    /\ \E D \in Prefixes : \E v \in [D -> QVals] :
          qdata = [t \in Tickers |->
                     IF t = "A" THEN Provided(order, History(D, v)) ELSE <<>>]
    /\ ddata = NoDaily
    /\ bdata = NoBase
    /\ info_df \in Requests({"A"})
    /\ n_jobs = Omitted
    /\ ConcatRuleOfPandas
    /\ Start

SpecDiff == InitDiff /\ [][Next]_vars

Spec == Init /\ [][Next]_vars

----------------------------------------------------------------------------
(* Vocabulary of the properties *)

Primitive == target.cls \in {"QuarterlyTarget", "DailyAggTarget"}

Returned == pc = "done"

SeqToSet(s) == {s[i] : i \in 1..Len(s)}

\* how many rows of the table carry the key of row r
KeyCount(rows, r) == Cardinality({i \in 1..Len(rows) : SameKey(rows[i], r)})

\* position of the quarter of date d in the table as the provider returned it
ProvidedPos(t, d) == CHOOSE p \in 1..Len(qdata[t]) : qdata[t][p].date = d

HasQuarter(t, d) == \E p \in 1..Len(qdata[t]) : qdata[t][p].date = d

\* the value `shift` places after the matched quarter in the engine's reversed
\* order, which is `shift` places before it in the provider's order
AtOffset(t, d, shift) ==
    LET p == ProvidedPos(t, d) - shift
    IN  IF p \in 1..Len(qdata[t]) THEN Num(qdata[t][p].val) ELSE Null

\* the quarters of ticker t that are older / newer than date d
Older(t, d) == {r \in SeqToSet(qdata[t]) : r.date < d}

Newer(t, d) == {r \in SeqToSet(qdata[t]) : r.date > d}

\* the value of the quarter right before / right after date d in time
Preceding(t, d) ==
    IF Older(t, d) = {} THEN Null
    ELSE Num((CHOOSE r \in Older(t, d) : \A s \in Older(t, d) : s.date <= r.date).val)

Following(t, d) ==
    IF Newer(t, d) = {} THEN Null
    ELSE Num((CHOOSE r \in Newer(t, d) : \A s \in Newer(t, d) : s.date >= r.date).val)

AllRequestsMatched == \A i \in 1..Len(info_df) : HasQuarter(info_df[i].ticker, info_df[i].date)

\* the daily records of ticker t on or after / strictly before date d
OnOrAfter(t, d) == {r \in SeqToSet(ddata[t].rows) : r.date >= d}

Before(t, d) == {r \in SeqToSet(ddata[t].rows) : r.date < d}

\* the n oldest / the n newest records of S
Earliest(S, n) == {r \in S : Cardinality({s \in S : s.date < r.date}) < n}

Latest(S, n) == {r \in S : Cardinality({s \in S : s.date > r.date}) < n}

\* the array `series` holds the values of exactly the records of S
HoldsExactly(series, S) ==
    /\ Len(series) = Cardinality(S)
    /\ SeqToSet(series) = {r.val : r \in S}

\* the same cell, or a null both: the None a worker wrote for a ticker without
\* daily table reaches the caller as None or as NaN
SameValue(a, b) == a = b \/ (IsNull(a) /\ IsNull(b))

\* the y a pass of the primitive t gives a request row looked at on its own
RowValue(t, r) ==
    SingleTickerTarget(t, [ticker |-> r.ticker, dates |-> <<r.date>>]).rows[1].y

----------------------------------------------------------------------------
(* C1: a primitive calculate that returns gives one row per request row, also *)
(* for repeated keys: as many rows as the request, every key as often as in   *)
(* the request, a null y where the row could not be resolved (offset off the  *)
(* history, no daily table), and one y per key.                               *)

Unresolvable(r) ==
    IF target.cls = "QuarterlyTarget"
    THEN IsNull(AtOffset(r.ticker, r.date, target.quarter_shift))
    ELSE ~ddata[r.ticker].present

C1_OneRowPerRequestRow ==
    (Returned /\ Primitive) =>
        /\ out.ok
        /\ Len(out.rows) = Len(info_df)
        /\ \A i \in 1..Len(info_df) :
              KeyCount(out.rows, info_df[i]) = KeyCount(info_df, info_df[i])
        /\ \A i \in 1..Len(out.rows) :
              /\ KeyCount(info_df, out.rows[i]) > 0
              /\ Unresolvable(out.rows[i]) => IsNull(out.rows[i].y)
              /\ \A j \in 1..Len(out.rows) :
                    SameKey(out.rows[i], out.rows[j]) => out.rows[i].y = out.rows[j].y

\* a returned table for a request that repeats a key, with an unresolved row
C1_Witness ==
    /\ Returned /\ Primitive
    /\ Len(info_df) = 2
    /\ SameKey(info_df[1], info_df[2])
    /\ Len(out.rows) = 2
    /\ IsNull(out.rows[1].y)

(* C2: row i of the returned table is row i of the request: its key, and the  *)
(* value the resolver gives that row, whatever the grouping, the sorted order *)
(* of the work items and the order in which the workers finished.             *)
C2_RequestOrderKept ==
    (Returned /\ Primitive) =>
        /\ Len(out.rows) = Len(info_df)
        /\ \A i \in 1..Len(info_df) :
              /\ SameKey(out.rows[i], info_df[i])
              /\ SameValue(out.rows[i].y, RowValue(target, info_df[i]))

\* a request whose rows are against the sorted order of the work items
C2_Witness ==
    /\ Returned /\ Primitive
    /\ Len(info_df) = 2
    /\ info_df[1].ticker = "B" /\ info_df[2].ticker = "A"
    /\ Len(params) = 2 /\ params[1].ticker = "A"
    /\ out.rows[1].ticker = "B"
    /\ ~IsNull(out.rows[1].y) /\ out.rows[1].y # out.rows[2].y

(* C3: a failed resolver fails the call.  When a date requested of           *)
(* QuarterlyTarget is not a quarter date of its ticker (so always for a       *)
(* ticker without quarters) no table is ever returned, and the results        *)
(* gathered from the workers that succeeded are not returned either.          *)
UsesQuarterly == target.cls \in {"QuarterlyTarget", "QuarterlyDiffTarget",
                                 "QuarterlyBinDiffTarget"}

C3_FailureAbortsCall ==
    /\ (UsesQuarterly /\ ~AllRequestsMatched) =>
          (pc \in {"call", "run", "failed"} /\ out = NoTable /\ tables = <<>>)
    /\ \A g \in 1..Len(wres) :
          wres[g].st = "fail" =>
             (pc \in {"run", "failed"} /\ Len(result) < g /\ out = NoTable)

\* the call failed on one ticker after the table of another had been gathered
C3_Witness ==
    /\ pc = "failed"
    /\ target.cls = "QuarterlyTarget"
    /\ Len(wres) = 2
    /\ wres[1].st = "ok" /\ wres[2].st = "fail"
    /\ Len(result) = 1
    /\ qdata[params[2].ticker] = <<>>

----------------------------------------------------------------------------
(* The windows of DailyAggTarget *)

Daily == target.cls = "DailyAggTarget"

\* the invocations of foo made for ticker t and date d
CallsFor(t, d) == {c \in foo_calls : c.ticker = t /\ c.date = d}

\* the work items whose worker has finished on a ticker with a daily table
Resolved == {g \in 1..Len(wres) : wres[g].st = "ok" /\ ddata[params[g].ticker].present}

\* foo was invoked for every date of every finished work item
EveryDateAggregated ==
    \A g \in Resolved : \A i \in 1..Len(params[g].dates) :
        CallsFor(params[g].ticker, params[g].dates[i]) # {}

\* With a provider that returns the daily records in the order ord, a horizon
\* h >= 0 hands foo exactly the h oldest records dated on or after the requested
\* date (all of them when there are fewer), the requested day included, and the
\* empty array for h = 0.
ForwardWindow(ord) ==
    (Daily /\ order = ord /\ target.horizon >= 0) =>
        /\ EveryDateAggregated
        /\ \A c \in foo_calls :
              HoldsExactly(c.series,
                           Earliest(OnOrAfter(c.ticker, c.date), target.horizon))

\* With a provider that returns the daily records in the order ord, a horizon
\* h < 0 hands foo exactly the |h| newest records dated strictly before the
\* requested date (all of them when there are fewer).
BackwardWindow(ord) ==
    (Daily /\ order = ord /\ target.horizon < 0) =>
        /\ EveryDateAggregated
        /\ \A c \in foo_calls :
              HoldsExactly(c.series,
                           Latest(Before(c.ticker, c.date), -target.horizon))

(* C4 as stated: the provider returns the daily records oldest first.        *)
C4_AscendingProvider == ForwardWindow("asc")

(* C4, amended: with a provider that returns the daily records newest first, *)
(* a horizon h >= 0 aggregates exactly the h oldest records dated on or      *)
(* after the requested date; h = 0 aggregates the empty window.              *)
C4_ForwardWindowNewestFirst == ForwardWindow("desc")

\* a forward window that had to leave out later records, and took the day itself
C4_Witness ==
    /\ Daily /\ order = "desc" /\ target.horizon >= 1
    /\ \E c \in foo_calls :
          /\ Cardinality(OnOrAfter(c.ticker, c.date)) > target.horizon
          /\ Len(c.series) = target.horizon
          /\ \E r \in OnOrAfter(c.ticker, c.date) : r.date = c.date /\ r.val = c.series[1]

(* C5 as stated: the provider returns the daily records oldest first.        *)
C5_AscendingProvider == BackwardWindow("asc")

(* C5, amended: with a provider that returns the daily records newest first, *)
(* a horizon h < 0 aggregates exactly the |h| newest records dated strictly  *)
(* before the requested date, whatever the length of the series.             *)
C5_BackwardWindowNewestFirst == BackwardWindow("desc")

\* a backward window that had to leave out older records, on a day with a record
C5_Witness ==
    /\ Daily /\ order = "desc" /\ target.horizon < 0
    /\ \E c \in foo_calls :
          /\ Cardinality(Before(c.ticker, c.date)) > -target.horizon
          /\ Len(c.series) = -target.horizon
          /\ \E r \in OnOrAfter(c.ticker, c.date) : r.date = c.date

----------------------------------------------------------------------------
(* The offsets of QuarterlyTarget *)

\* With a provider that returns the quarters in the order ord, offset -1 gives
\* the value of the quarter right before the matched one in time, offset +1 of
\* the quarter right after it, offset 0 of the matched quarter.
NeighbourQuarter(ord) ==
    (Returned /\ target.cls = "QuarterlyTarget" /\ order = ord) =>
        \A i \in 1..Len(out.rows) :
            LET r == out.rows[i]
            IN  /\ target.quarter_shift = -1 => r.y = Preceding(r.ticker, r.date)
                /\ target.quarter_shift = 1 => r.y = Following(r.ticker, r.date)
                /\ target.quarter_shift = 0 => r.y = AtOffset(r.ticker, r.date, 0)

(* C6 as stated: the provider returns the quarters oldest first.             *)
C6_AscendingProvider == NeighbourQuarter("asc")

(* C6, amended: with a provider that returns the quarters newest first,      *)
(* offset -1 is the previous quarter in time, +1 the next, 0 the matched.     *)
C6_NeighbourQuarterNewestFirst == NeighbourQuarter("desc")

\* offset -1 answered with the value of an existing earlier quarter
C6_Witness ==
    /\ Returned /\ target.cls = "QuarterlyTarget" /\ order = "desc"
    /\ target.quarter_shift = -1
    /\ \E i \in 1..Len(out.rows) :
          /\ ~IsNull(out.rows[i].y)
          /\ Newer(out.rows[i].ticker, out.rows[i].date) # {}

(* C7: for a matched date and any offset the value is the column at position *)
(* (index of the match + offset) of the reversed table when that position is *)
(* in [0, length), else null: no error, no wrap-around; offset 0 is the      *)
(* matched quarter's own value.                                               *)
C7_OffsetInRangeOrNull ==
    /\ (Returned /\ target.cls = "QuarterlyTarget") =>
          \A i \in 1..Len(out.rows) :
              LET r == out.rows[i]
                  internal == Reverse(qdata[r.ticker])
                  pos == (Len(internal) - ProvidedPos(r.ticker, r.date))
                         + target.quarter_shift
              IN  /\ r.y = IF pos >= 0 /\ pos < Len(internal)
                           THEN Num(internal[pos + 1].val) ELSE Null
                  /\ target.quarter_shift = 0 =>
                        \E q \in SeqToSet(qdata[r.ticker]) :
                            q.date = r.date /\ r.y = Num(q.val)
    /\ (target.cls = "QuarterlyTarget" /\ AllRequestsMatched /\ info_df # <<>>) =>
          pc # "failed"

\* a negative position, which Python indexing would wrap to the other end
C7_Witness ==
    /\ Returned /\ target.cls = "QuarterlyTarget"
    /\ \E i \in 1..Len(out.rows) :
          LET r == out.rows[i]
              pos == (Len(qdata[r.ticker]) - ProvidedPos(r.ticker, r.date))
                     + target.quarter_shift
          IN  /\ pos < 0 /\ -pos <= Len(qdata[r.ticker])
              /\ IsNull(r.y)
    /\ \E j \in 1..Len(out.rows) : ~IsNull(out.rows[j].y)

----------------------------------------------------------------------------
(* C8: a ticker without a daily table gets a null y on every requested date, *)
(* foo is never invoked for it, the call does not fail, and the rows of the  *)
(* other tickers are resolved as usual.                                       *)
C8_AbsentDailyIsNull ==
    Daily =>
        /\ \A c \in foo_calls : ddata[c.ticker].present
        /\ info_df # <<>> => pc # "failed"
        /\ Returned =>
              \A i \in 1..Len(info_df) :
                  LET r == out.rows[i]
                  IN  IF ddata[info_df[i].ticker].present
                      THEN /\ r.ticker = info_df[i].ticker
                           /\ r.y = Mean(DailyWindow(Reverse(ddata[r.ticker].rows),
                                                     "val", target.horizon,
                                                     info_df[i].date))
                      ELSE /\ r.ticker = info_df[i].ticker
                           /\ IsNull(r.y)

\* one ticker without a table, the other resolved to a number
C8_Witness ==
    /\ Returned /\ Daily
    /\ Len(info_df) = 2
    /\ ~ddata[info_df[1].ticker].present /\ IsNull(out.rows[1].y)
    /\ ddata[info_df[2].ticker].present /\ ~IsNull(out.rows[2].y)
    /\ foo_calls # {}

----------------------------------------------------------------------------
(* The quarterly differences, checked under SpecDiff *)

\* the quarter values the two passes read for a request row
Current(r) == AtOffset(r.ticker, r.date, 0)

Prior(r) == AtOffset(r.ticker, r.date, -1)

(* C9: QuarterlyDiffTarget gives every request row (value at offset 0) minus *)
(* (value at offset -1), over the absolute offset -1 value when norm is set; *)
(* null when either value is null; a zero prior value gives a non-finite     *)
(* result and the call still returns.                                         *)
C9_QuarterlyDiff ==
    (target.cls = "QuarterlyDiffTarget") =>
        /\ (AllRequestsMatched /\ info_df # <<>>) => pc # "failed"
        /\ Returned =>
              /\ Len(out.rows) = Len(info_df)
              /\ \A i \in 1..Len(info_df) :
                    LET cur == Current(info_df[i])
                        prior == Prior(info_df[i])
                        y == out.rows[i].y
                    IN  /\ SameKey(out.rows[i], info_df[i])
                        /\ (IsNull(cur) \/ IsNull(prior)) => IsNull(y)
                        /\ (~IsNull(cur) /\ ~IsNull(prior) /\ ~target.norm) =>
                              y = Num(cur.n - prior.n)
                        /\ (~IsNull(cur) /\ ~IsNull(prior) /\ target.norm
                               /\ prior.n # 0) =>
                              /\ IsFinite(y)
                              /\ y.d > 0
                              /\ y.n * Abs(prior.n) = (cur.n - prior.n) * y.d
                        /\ (~IsNull(cur) /\ ~IsNull(prior) /\ target.norm
                               /\ prior.n = 0) =>
                              ~IsFinite(y)

\* 120 after 100 gives a fifth, and a zero prior value an infinity, in one table
C9_Witness ==
    /\ Returned /\ target.cls = "QuarterlyDiffTarget" /\ target.norm
    /\ Len(out.rows) = 2
    /\ Current(info_df[1]) = Num(120) /\ Prior(info_df[1]) = Num(100)
    /\ out.rows[1].y = [k |-> "num", n |-> 1, d |-> 5]
    /\ Prior(info_df[2]) = Num(0)
    /\ out.rows[2].y = PosInf

(* C10: QuarterlyBinDiffTarget gives every request row 1.0 when the          *)
(* difference without normalisation is above zero, 0.0 when it is zero or    *)
(* below, and null when the difference is null.                               *)
C10_BinaryDiff ==
    (Returned /\ target.cls = "QuarterlyBinDiffTarget") =>
        /\ Len(out.rows) = Len(info_df)
        /\ \A i \in 1..Len(info_df) :
              LET cur == Current(info_df[i])
                  prior == Prior(info_df[i])
                  y == out.rows[i].y
              IN  /\ SameKey(out.rows[i], info_df[i])
                  /\ y = IF IsNull(cur) \/ IsNull(prior) THEN Null
                         ELSE IF cur.n - prior.n > 0 THEN Num(1) ELSE Num(0)

\* a row without a prior quarter next to a row whose difference is zero
C10_Witness ==
    /\ Returned /\ target.cls = "QuarterlyBinDiffTarget"
    /\ Len(out.rows) = 2
    /\ IsNull(Prior(info_df[1])) /\ IsNull(out.rows[1].y)
    /\ ~IsNull(Prior(info_df[2])) /\ Current(info_df[2]) = Prior(info_df[2])
    /\ out.rows[2].y = Num(0)

----------------------------------------------------------------------------
(* Two QuarterlyTarget calls chained the way lines 351-354 chain the       *)
(* quarterly and the daily call: the first reads column 'date' at offset   *)
(* -1, its 'y' becomes the 'date' of the second request, the second reads  *)
(* the column at offset 0.                                                 *)

RebasedTargets ==
    {[cls |-> "RebasedQuarterly", col |-> "val", quarter_shift |-> -1,
      horizon |-> 0, norm |-> FALSE]}

\* one ticker with any history, the other with the full one or none
InitRebase ==
    /\ order \in Orders
    /\ target \in RebasedTargets
    /\ \E D \in SUBSET Dates : \E E \in {{}, Dates} :
          qdata = [t \in Tickers |->
                     Provided(order, History(IF t = "A" THEN D ELSE E, BaseVal(t)))]
    /\ ddata = NoDaily
    /\ bdata = NoBase
    /\ info_df \in Requests(Tickers)
    /\ n_jobs = Omitted
    /\ ConcatRuleOfPandas
    /\ Start

SpecRebase == InitRebase /\ [][Next]_vars

\* the single call the chain is compared with
Direct == [cls |-> "QuarterlyTarget", col |-> target.col, quarter_shift |-> -1,
           horizon |-> 0, norm |-> FALSE]

\* the offset -1 of request row r is off the history of its ticker
WalksOff(r) == IsNull(AtOffset(r.ticker, r.date, -1))

EqualsDirect ==
    /\ Len(out.rows) = Len(info_df)
    /\ \A i \in 1..Len(info_df) :
          /\ out.rows[i].ticker = info_df[i].ticker
          /\ out.rows[i].y = RowValue(Direct, info_df[i])

(* C11 as stated: for every matched request the chain returns, row for row, *)
(* what the single call at offset -1 returns, also when the offset -1 of a  *)
(* row walks off the history.                                               *)
C11_ChainEqualsDirectAlways ==
    (AllRequestsMatched /\ info_df # <<>>) =>
        /\ pc # "failed"
        /\ Returned => EqualsDirect

(* C11: for a matched request none of whose rows walks off the history at   *)
(* offset -1, the chain returns row for row the values of the single call   *)
(* at offset -1.  When a row walks off, its rebased date is null and the    *)
(* second call is aborted on it: the chain never returns a table.           *)
C11_ChainEqualsDirectInHistory ==
    (AllRequestsMatched /\ info_df # <<>>) =>
        IF \E i \in 1..Len(info_df) : WalksOff(info_df[i])
        THEN /\ ~Returned
             /\ pc = "failed" => (passNo = 2 /\ err = ValueError)
        ELSE /\ pc # "failed"
             /\ Returned => EqualsDirect

\* the chain returned for two tickers, read one quarter away from the request
C11_Witness ==
    /\ Returned
    /\ Len(info_df) = 2
    /\ info_df[1].ticker = "B" /\ info_df[2].ticker = "A"
    /\ \A i \in 1..2 : /\ ~IsNull(out.rows[i].y)
                       /\ out.rows[i].date # info_df[i].date
                       /\ out.rows[i].y = Num(BaseVal(info_df[i].ticker)[out.rows[i].date])

----------------------------------------------------------------------------
(* C12: when calculate of QuarterlyTarget is aborted because a requested    *)
(* date is no quarter date of its ticker, the exception that reaches the    *)
(* caller names the ticker and the date.                                    *)
C12_FailureNamesTickerAndDate ==
    (pc = "failed" /\ target.cls = "QuarterlyTarget" /\ ~AllRequestsMatched) =>
        {"ticker", "date"} \subseteq err.names

----------------------------------------------------------------------------
(* ReportGapTarget on one ticker whose daily history may have gaps or be    *)
(* absent, with smoothing horizons of both signs                            *)

GapHorizons == {-2, -1, 0, 1, 2}

GapTargets(Horizons) ==
    {[cls |-> "ReportGapTarget", col |-> "val", quarter_shift |-> 0,
      horizon |-> h, norm |-> b] : h \in Horizons, b \in BOOLEAN}

InitGap ==
    /\ order \in Orders
    /\ target \in GapTargets(GapHorizons)
    /\ qdata = NoQuarterly
    /\ \E D \in (SUBSET Dates) \cup {{-1}} :
          ddata = [t \in Tickers |->
                     IF t = "A" /\ D # {-1}
                     THEN Table(Provided(order, History(D, BaseVal(t))))
                     ELSE Absent]
    /\ bdata = NoBase
    /\ info_df \in Requests({"A"})
    /\ n_jobs = Omitted
    /\ ConcatRuleOfPandas
    /\ Start

SpecGap == InitGap /\ [][Next]_vars

\* the daily records whose values the array of call c holds
RecordsOf(c) ==
    {r \in SeqToSet(ddata[c.ticker].rows) : r.val \in SeqToSet(c.series)}

(* C13: no look-ahead in DailyAggTarget, whatever the provider's order.      *)
(* Every array handed to the aggregation function holds distinct records of  *)
(* the ticker, at most |horizon| of them, all dated before the requested     *)
(* date when horizon < 0 and on or after it when horizon >= 0; the backward  *)
(* and the forward window of one requested date share no record.             *)
C13_NoLookahead ==
    /\ \A c \in foo_calls :
          /\ Len(c.series) <= Abs(c.horizon)
          /\ Len(c.series) = Cardinality(RecordsOf(c))
          /\ \A r \in RecordsOf(c) :
                IF c.horizon < 0 THEN r.date < c.date ELSE r.date >= c.date
    /\ \A c, e \in foo_calls :
          (c.ticker = e.ticker /\ c.date = e.date /\ c.horizon < 0 /\ e.horizon >= 0)
             => RecordsOf(c) \cap RecordsOf(e) = {}

\* both windows of a date in the middle of an ascending history were aggregated,
\* each cut to one record
C13_Witness ==
    /\ order = "asc"
    /\ Len(ddata["A"].rows) = 3
    /\ \E c, e \in foo_calls :
          /\ c.ticker = "A" /\ e.ticker = "A"
          /\ c.date = 2 /\ e.date = 2
          /\ c.horizon = -1 /\ e.horizon = 1
          /\ Len(c.series) = 1 /\ Len(e.series) = 1
          /\ Cardinality(Before("A", 2)) = 1 /\ Cardinality(OnOrAfter("A", 2)) = 2

----------------------------------------------------------------------------
(* The three compositions on two tickers that report every quarter, the     *)
(* daily table of either ticker possibly absent                             *)

SmoothedTargets(Horizons) ==
    {[cls |-> "DailySmoothedQuarterlyDiffTarget", col |-> "val", quarter_shift |-> -1,
      horizon |-> h, norm |-> b] : h \in Horizons, b \in BOOLEAN}

FullHistory(t) == History(Dates, BaseVal(t))

Compose ==
    \/ /\ target \in {t \in DiffTargets : t.cls = "QuarterlyDiffTarget"}
       /\ qdata = [t \in Tickers |-> Provided(order, FullHistory(t))]
       /\ ddata = NoDaily
    \/ /\ target \in GapTargets({1}) \cup SmoothedTargets({1})
       /\ qdata = [t \in Tickers |-> Provided(order, FullHistory(t))]
       /\ \E P \in SUBSET Tickers :
             ddata = [t \in Tickers |->
                        IF t \in P THEN Table(Provided(order, FullHistory(t)))
                        ELSE Absent]

InitCompose ==
    /\ order \in Orders
    /\ Compose
    /\ bdata = NoBase
    /\ info_df \in Requests(Tickers)
    /\ n_jobs = Omitted
    /\ ConcatRuleOfPandas
    /\ Start

SpecCompose == InitCompose /\ [][Next]_vars

Composition ==
    target.cls \in {"QuarterlyDiffTarget", "ReportGapTarget",
                    "DailySmoothedQuarterlyDiffTarget"}

Smoothed == target.cls = "DailySmoothedQuarterlyDiffTarget"

\* the date of the quarter one place before the quarter of request row r in the
\* engine's order, the null date when there is none
RebasedDate(r) ==
    LET p == ProvidedPos(r.ticker, r.date) + 1
    IN  IF p \in 1..Len(qdata[r.ticker]) THEN qdata[r.ticker][p].date ELSE NaT

\* the date pass k has to resolve for request row r
PassDate(k, r) == IF Smoothed /\ k = 3 THEN RebasedDate(r) ELSE r.date

\* the value pass k has to resolve for request row r
Part(k, r) ==
    RowValue(PassTarget(target, k), [ticker |-> r.ticker, date |-> PassDate(k, r)])

\* the two passes whose tables are combined
Minuend == IF Smoothed THEN 2 ELSE 1

Subtrahend == Minuend + 1

\* the difference of the two parts, over the second when normed
Joined(a, b) ==
    IF target.norm
    THEN Div(Sub(a, b), IF Smoothed THEN b ELSE AbsCell(b))
    ELSE Sub(a, b)

(* C14: the tables a composition combines are aligned with the request.     *)
(* Row i of the table of every pass carries the ticker of request row i,    *)
(* the date that pass resolves for it (the rebased one, null included, in   *)
(* the last pass of the smoothed difference) and the value resolved for     *)
(* that ticker and date; the y of output row i is computed from the two     *)
(* values resolved for request row i.                                       *)
C14_TablesAligned ==
    Composition =>
        /\ \A k \in 1..Len(tables) :
              /\ Len(tables[k]) = Len(info_df)
              /\ \A i \in 1..Len(info_df) :
                    /\ tables[k][i].ticker = info_df[i].ticker
                    /\ tables[k][i].date = PassDate(k, info_df[i])
                    /\ SameValue(tables[k][i].y, Part(k, info_df[i]))
        /\ Returned =>
              /\ Len(out.rows) = Len(info_df)
              /\ \A i \in 1..Len(info_df) :
                    /\ SameKey(out.rows[i], info_df[i])
                    /\ out.rows[i].y = Joined(Part(Minuend, info_df[i]),
                                              Part(Subtrahend, info_df[i]))

\* the smoothed difference returned for a request that names B before A, where
\* the rebased date of B is null and that of A is an earlier quarter
C14_Witness ==
    /\ Returned /\ Smoothed /\ target.norm
    /\ Len(info_df) = 2
    /\ info_df[1].ticker = "B" /\ info_df[2].ticker = "A"
    /\ params[1].ticker = "A"
    /\ tables[3][1].date = NaT
    /\ tables[3][2].date \notin {NaT, info_df[2].date}
    /\ IsNull(out.rows[1].y)
    /\ IsFinite(out.rows[2].y) /\ out.rows[2].y # Num(0)

----------------------------------------------------------------------------
(* The smoothed quarterly difference *)

\* the mean of the daily window of the target anchored at date d
WindowMean(t, d) ==
    RowValue(PassTarget(target, 2), [ticker |-> t, date |-> d])

HasPreviousQuarter(r) == Older(r.ticker, r.date) # {}

\* the report date of the quarter right before the one of request row r in time
PreviousReportDate(r) ==
    (CHOOSE q \in Older(r.ticker, r.date) :
        \A s \in Older(r.ticker, r.date) : s.date <= q.date).date

EveryTickerHasDaily == \A i \in 1..Len(info_df) : ddata[info_df[i].ticker].present

(* C15 as stated: given an ascending provider, the smoothed difference of   *)
(* a request at quarter report dates is not aborted, and it returns for     *)
(* every row the window mean at its report date minus the window mean at    *)
(* the report date of the previous quarter in time (over that mean when     *)
(* normed), null where the ticker has no previous quarter.                  *)
C15_SmoothedDiffAscending ==
    (Smoothed /\ order = "asc" /\ info_df # <<>> /\ AllRequestsMatched
        /\ EveryTickerHasDaily) =>
        /\ pc # "failed"
        /\ Returned =>
              \A i \in 1..Len(info_df) :
                  IF HasPreviousQuarter(info_df[i])
                  THEN out.rows[i].y =
                          Joined(WindowMean(info_df[i].ticker, info_df[i].date),
                                 WindowMean(info_df[i].ticker,
                                            PreviousReportDate(info_df[i])))
                  ELSE IsNull(out.rows[i].y)

----------------------------------------------------------------------------
(* Windows that run off the daily history *)

\* the records on the side of date d the horizon h looks at
Side(t, d, h) == IF h < 0 THEN Before(t, d) ELSE OnOrAfter(t, d)

RECURSIVE SumOfVals(_)
SumOfVals(S) ==
    IF S = {} THEN 0
    ELSE LET r == CHOOSE x \in S : TRUE IN r.val + SumOfVals(S \ {r})

\* request row r of DailyAggTarget has fewer than |horizon| records on its side
RunsOff(r) ==
    /\ ddata[r.ticker].present
    /\ target.horizon # 0
    /\ Cardinality(Side(r.ticker, r.date, target.horizon)) < Abs(target.horizon)

\* DailyAggTarget with every aggregation function, on one ticker whose history
\* may have gaps, with horizons that reach beyond the history
InitAgg ==
    /\ order \in Orders
    /\ target \in DailyTargets(WideRange, Foos)
    /\ qdata = NoQuarterly
    /\ \E D \in SUBSET Dates :
          ddata = [t \in Tickers |->
                     IF t = "A" THEN Table(Provided(order, History(D, BaseVal(t))))
                     ELSE Absent]
    /\ bdata = NoBase
    /\ info_df \in Requests({"A"})
    /\ n_jobs = Omitted
    /\ ConcatRuleOfPandas
    /\ Start

SpecAgg == InitAgg /\ [][Next]_vars

\* the window of request row r holds no record
WindowEmpty(r) ==
    target.horizon = 0 \/ Side(r.ticker, r.date, target.horizon) = {}

\* the aggregation function of the target raises on the window of a request row
FooFails ==
    target.foo = "max" /\ \E i \in 1..Len(info_df) : WindowEmpty(info_df[i])

\* what the aggregation function foo makes of the values of the records S
Aggregate(foo, S) ==
    CASE foo = "mean" -> IF S = {} THEN Null ELSE Rat(SumOfVals(S), Cardinality(S))
      [] foo = "max" -> Num(CHOOSE v \in {r.val : r \in S} : \A r \in S : r.val <= v)
      [] foo = "sum" -> Num(SumOfVals(S))

(* C16 as stated: a row of DailyAggTarget whose window runs off the daily   *)
(* history is null, and no error is raised.                                 *)
C16_ShortWindowIsNull ==
    (Daily /\ \E i \in 1..Len(info_df) : RunsOff(info_df[i])) =>
        /\ pc # "failed"
        /\ Returned =>
              \A i \in 1..Len(info_df) : RunsOff(info_df[i]) => IsNull(out.rows[i].y)

(* C16: a row of DailyAggTarget whose window runs off the daily history     *)
(* holds what the aggregation function makes of the records that do exist   *)
(* on the requested side: with np.mean their mean, a null only when there   *)
(* is none.  The engine raises no error of its own: the call is aborted     *)
(* exactly when the aggregation function raises on the window of a request  *)
(* row (np.max on an empty window).                                         *)
C16_ShortWindowAggregated ==
    (Daily /\ info_df # <<>>) =>
        /\ pc = "failed" => (FooFails /\ err = ValueError)
        /\ Returned =>
              /\ ~FooFails
              /\ \A i \in 1..Len(info_df) :
                    RunsOff(info_df[i]) =>
                       out.rows[i].y =
                          Aggregate(target.foo,
                                    Side(info_df[i].ticker, info_df[i].date,
                                         target.horizon))

\* three days back from a date with two earlier records: their sum is returned
C16_Witness ==
    /\ Returned /\ Daily
    /\ target.horizon = -3 /\ target.foo = "sum"
    /\ Len(info_df) = 1
    /\ Cardinality(Before("A", info_df[1].date)) = 2
    /\ info_df[1].date = 3
    /\ out.rows[1].y = Num(30)

----------------------------------------------------------------------------
(* The report gap *)

Gap == target.cls = "ReportGapTarget"

\* the mean of the values of the records S, NaN for none
MeanOf(S) == IF S = {} THEN Null ELSE Rat(SumOfVals(S), Cardinality(S))

\* the daily records of ticker t dated after d
After(t, d) == {r \in SeqToSet(ddata[t].rows) : r.date > d}

(* C17 as stated: with a provider that returns the daily records oldest      *)
(* first, ReportGapTarget with smoothing horizon h > 0 returns for every     *)
(* request row the mean of the h records right after the report date minus   *)
(* the mean of the h records right before it, divided by the absolute value  *)
(* of the latter mean when norm is set.                                      *)
C17_ReportGapAscending ==
    (Gap /\ order = "asc" /\ target.horizon > 0 /\ info_df # <<>>) =>
        /\ pc # "failed"
        /\ Returned =>
              /\ Len(out.rows) = Len(info_df)
              /\ \A i \in 1..Len(info_df) :
                    LET t == info_df[i].ticker
                        d == info_df[i].date
                    IN  /\ SameKey(out.rows[i], info_df[i])
                        /\ SameValue(out.rows[i].y,
                              Joined(MeanOf(Earliest(After(t, d), target.horizon)),
                                     MeanOf(Latest(Before(t, d), target.horizon))))

----------------------------------------------------------------------------
(* C18: the passes of a composition run one after the other.  A pass hands   *)
(* out its work items only when every worker of the pass before it has       *)
(* finished, all their tables have been gathered and the merged table of     *)
(* that pass has been returned; the daily pass of the smoothed difference    *)
(* on the rebased dates is handed out only when the quarterly pass has       *)
(* returned a table with a row for every request row, and it works on the    *)
(* dates of that table.                                                      *)
C18_PassesInSequence ==
    [][(Composition /\ passNo > 1 /\ pc = "call" /\ pc' = "run") =>
          /\ \A g \in 1..Len(wres) : wres[g].st = "ok"
          /\ Len(result) = Len(params)
          /\ Len(tables) = passNo - 1
          /\ \A g \in 1..Len(wres') : wres'[g].st = "pending"
          /\ (Smoothed /\ passNo = 3) =>
                /\ Len(tables[1]) = Len(info_df)
                /\ \A g \in 1..Len(params') : \A j \in 1..Len(params'[g].dates) :
                      \E i \in 1..Len(info_df) :
                          /\ tables[1][i].ticker = params'[g].ticker
                          /\ IF params'[g].dates[j] = NaT
                             THEN IsNull(tables[1][i].y)
                             ELSE tables[1][i].y = Num(params'[g].dates[j])]_vars

\* the rebased daily pass of the smoothed difference at work on two tickers, one
\* worker done and one not, after the two passes before it have returned
C18_Witness ==
    /\ Smoothed /\ passNo = 3 /\ pc = "run"
    /\ Len(params) = 2
    /\ wres[1].st = "pending" /\ wres[2].st = "ok"
    /\ Len(tables) = 2
    /\ Len(tables[1]) = Len(info_df)

----------------------------------------------------------------------------
(* Every calculator that takes n_jobs, called with and without the argument  *)
(* on two tickers with full histories                                        *)

JobArgs == {Omitted, 1, 2}

InitJobs ==
    /\ order \in Orders
    /\ target \in QuarterlyTargets({-1, 0}) \cup DailyTargets({1}, {"mean"}) \cup DiffTargets
                     \cup GapTargets({1}) \cup SmoothedTargets({1})
    /\ qdata = [t \in Tickers |-> Provided(order, FullHistory(t))]
    /\ ddata = [t \in Tickers |-> Table(Provided(order, FullHistory(t)))]
    /\ bdata = NoBase
    /\ info_df \in Requests(Tickers)
    /\ n_jobs \in JobArgs
    /\ ConcatRuleOfPandas
    /\ Start

SpecJobs == InitJobs /\ [][Next]_vars

\* a pass of the call has opened its pool
PoolOpened == pc # "call" \/ passNo > 1

(* C19: the pool of every primitive pass of a calculate call has the size    *)
(* the caller gave as n_jobs, and the default cpu_count() only when the      *)
(* caller gave none; so in all three passes of the smoothed difference.      *)
C19_PoolOfSuppliedSize ==
    PoolOpened => pool = (IF n_jobs = Omitted THEN CpuCount ELSE n_jobs)

----------------------------------------------------------------------------
(* BaseInfoTarget.calculate *)

\* the rows a request row contributes to the left join on 'ticker', cut to the
\* columns ticker and y
BaseJoinRow(l, base_df) ==
    LET hits == SelectSeq(base_df, LAMBDA b : b.ticker = l.ticker)
    IN  IF hits = <<>>
        THEN <<[ticker |-> l.ticker, y |-> Null]>>
        ELSE [j \in 1..Len(hits) |-> [ticker |-> l.ticker, y |-> Num(hits[j].val)]]

\* a join that keeps only the tickers of the attribute table
BaseMergeInner(left, base_df) ==
    Flatten([i \in 1..Len(left) |->
                LET hits == SelectSeq(base_df, LAMBDA b : b.ticker = left[i].ticker)
                IN  [j \in 1..Len(hits) |->
                        [ticker |-> left[i].ticker, y |-> Num(hits[j].val)]]])

\* pd.merge(info_df, base_df, on='ticker', how='left') and the renaming to y
BaseMerge(left, base_df) ==
    Flatten([i \in 1..Len(left) |-> BaseJoinRow(left[i], base_df)])

\* lines 463-469: the whole call, no pool
BaseCalculate ==
    /\ pc = "call"
    /\ target.cls = "BaseInfoTarget"
    /\ out' = [ok |-> TRUE, rows |-> BaseMerge(info_df, bdata)]
    /\ pc' = "done"
    /\ UNCHANGED <<inputs, passNo, params, pool, wres, result, tables, err, foo_calls>>

NextBase == BaseCalculate

BaseTargets ==
    {[cls |-> "BaseInfoTarget", col |-> "val", quarter_shift |-> 0,
      horizon |-> 0, norm |-> FALSE]}

AttrVals == {1, 2}

\* attribute tables with at most one row per ticker, in any row order
BaseTables ==
    {<<>>}
    \cup {<<[ticker |-> t, val |-> v]>> : t \in Tickers, v \in AttrVals}
    \cup {s \in {<<[ticker |-> t, val |-> v], [ticker |-> u, val |-> w]>> :
                    t \in Tickers, u \in Tickers, v \in AttrVals, w \in AttrVals} :
             s[1].ticker # s[2].ticker}

InitBase ==
    /\ order \in Orders
    /\ target \in BaseTargets
    /\ qdata = NoQuarterly
    /\ ddata = NoDaily
    /\ bdata \in BaseTables
    /\ info_df \in Requests(Tickers)
    /\ n_jobs = Omitted
    /\ ConcatRuleOfPandas
    /\ Start

SpecBase == InitBase /\ [][NextBase]_vars

\* the rows of the attribute table for ticker t
Attributes(t) == {b \in SeqToSet(bdata) : b.ticker = t}

(* C20: BaseInfoTarget.calculate on an attribute table with one row per      *)
(* ticker returns one row per request row, in request order, made of the     *)
(* ticker and y only; y is the attribute of the ticker, a null when the      *)
(* table has no row for it, whatever the date of the request row.            *)
C20_BaseInfoLeftJoin ==
    Returned =>
        /\ out.ok
        /\ Len(out.rows) = Len(info_df)
        /\ \A i \in 1..Len(info_df) :
              /\ DOMAIN out.rows[i] = {"ticker", "y"}
              /\ out.rows[i].ticker = info_df[i].ticker
              /\ IF Attributes(info_df[i].ticker) = {}
                 THEN IsNull(out.rows[i].y)
                 ELSE \E b \in Attributes(info_df[i].ticker) : out.rows[i].y = Num(b.val)

\* a request that names a ticker without attribute before one with attribute
C20_Witness ==
    /\ Returned
    /\ target.cls = "BaseInfoTarget"
    /\ Len(info_df) = 2
    /\ info_df[1].ticker = "B" /\ info_df[2].ticker = "A"
    /\ info_df[1].date # info_df[2].date
    /\ Attributes("B") = {}
    /\ IsNull(out.rows[1].y)
    /\ out.rows[2].y = Num(2)

====
